---- MODULE Spec2Model ----
(***************************************************************************)
(* eGFR / CrCl calculator: src/src/egfr.py (unit conversion, the four      *)
(* equations, KDIGO staging, compute_kidney_function) and the result       *)
(* handling of src/app.py (session-held last result, history CSV).         *)
(*                                                                         *)
(* Numbers.  A Python float is modelled by an exact rational <<n, d>> in   *)
(* lowest terms with d > 0.  Comparison, +, *, / are exact.  The           *)
(* non-integer powers of the three eGFR equations are computed in decimal  *)
(* fixed point with SCALE = 10^6 (ln and exp by range reduction and        *)
(* series); their results are the rationals v / SCALE, within 2e-4         *)
(* relative of the IEEE results over the widgets' ranges.                  *)
(***************************************************************************)
EXTENDS Integers, Sequences, FiniteSets, TLC

VARIABLES
    call,            \* core: the last call made into src/egfr.py and its outcome
    now,             \* the wall clock read by datetime.now(), in seconds
    kidney_result,   \* app: st.session_state.kidney_result
    history_exists,  \* app: HISTORY_FILE.exists()
    history_lines,   \* app: the lines of HISTORY_FILE
    clicked,         \* app: the button whose click started the current rerun
    shown            \* app: what the rerun reported (st.error / st.success)

vars == <<call, now, kidney_result, history_exists, history_lines, clicked, shown>>

\* Optional[T]: None is the empty tuple, a present value x is <<x>>
None == <<>>
Some(x) == <<x>>

(***************************************************************************)
(* Exact rationals                                                         *)
(***************************************************************************)
Abs(i) == IF i < 0 THEN -i ELSE i

RECURSIVE GCD(_, _)
GCD(a, b) == IF b = 0 THEN a ELSE GCD(b, a % b)

Rat(n, d) ==
    LET g == GCD(Abs(n), Abs(d))
        s == IF d < 0 THEN -1 ELSE 1
    IN  <<(s * n) \div g, (s * d) \div g>>

RInt(i) == <<i, 1>>
RLt(a, b) == a[1] * b[2] < b[1] * a[2]
RLe(a, b) == a[1] * b[2] <= b[1] * a[2]
RGe(a, b) == RLe(b, a)
REq(a, b) == a[1] * b[2] = b[1] * a[2]
\* cross-cancelled first, so that the products stay small
RMul(a, b) ==
    LET x == Rat(a[1], b[2])
        y == Rat(b[1], a[2])
    IN  Rat(x[1] * y[1], x[2] * y[2])
RDiv(a, b) == RMul(a, Rat(b[2], b[1]))
RSub(a, b) == Rat(a[1] * b[2] - b[1] * a[2], a[2] * b[2])
RMin(a, b) == IF RLe(a, b) THEN a ELSE b
RMax(a, b) == IF RGe(a, b) THEN a ELSE b

(***************************************************************************)
(* Decimal fixed point, for float ** float                                 *)
(***************************************************************************)
SCALE == 10^6
HALF == 10^3
LN2 == 693147   \* ln 2, in fixed point

\* floor(n * 10^digits / d) for n >= 0, d > 0, by long division
RECURSIVE LongDiv(_, _, _)
LongDiv(n, d, digits) ==
    IF digits = 0 THEN n \div d
    ELSE (n \div d) * 10^digits + LongDiv((n % d) * 10, d, digits - 1)

ToFixed(r) == LongDiv(r[1], r[2], 6)
FromFixed(v) == Rat(v, SCALE)

\* a * b / SCALE for a, b >= 0, split so that no product leaves 32 bits
FMul(a, b) ==
    LET ah == a \div HALF
        al == a % HALF
        bh == b \div HALF
        bl == b % HALF
    IN  ah * bh + (ah * bl + al * bh) \div HALF + (al * bl) \div SCALE

SMul(a, b) ==
    IF (a < 0) = (b < 0) THEN FMul(Abs(a), Abs(b)) ELSE -FMul(Abs(a), Abs(b))

\* a * SCALE / b, signed in a, b > 0
SDiv(a, b) == IF a < 0 THEN -LongDiv(-a, b, 6) ELSE LongDiv(a, b, 6)

\* <<m, k>> with x = m * 2^k and 0.75 <= m < 1.5
RECURSIVE LnReduce(_, _)
LnReduce(m, k) ==
    IF m >= (3 * SCALE) \div 2 THEN LnReduce(m \div 2, k + 1)
    ELSE IF m < (3 * SCALE) \div 4 THEN LnReduce(m * 2, k - 1)
    ELSE <<m, k>>

\* 1 + z2/3 + z2^2/5 + z2^3/7 + z2^4/9, by Horner's rule
AtanhPoly(z2) ==
    SCALE + SMul(z2, 333333 + SMul(z2, 200000 + SMul(z2, 142857 + SMul(z2, 111111))))

LnSeries(z, k) == 2 * SMul(z, AtanhPoly(SMul(z, z))) + k * LN2

LnParts(r) == LnSeries(SDiv(r[1] - SCALE, r[1] + SCALE), r[2])

\* ln x = k ln 2 + 2 atanh((m - 1) / (m + 1)), x = m * 2^k in fixed point
Ln(x) == LnParts(LnReduce(x, 0))

\* 1 + r + r^2/2! + ... + r^8/8!, by Horner's rule
ExpPoly(r) ==
    SCALE + SMul(r, SCALE + SMul(r, 500000 + SMul(r, 166667 + SMul(r, 41667
          + SMul(r, 8333 + SMul(r, 1389 + SMul(r, 198 + SMul(r, 25))))))))

ExpParts(y, k) ==
    IF k >= 0 THEN ExpPoly(y - k * LN2) * 2^k ELSE ExpPoly(y - k * LN2) \div 2^(-k)

\* exp y = 2^k exp(y - k ln 2), k the nearest integer to y / ln 2
Exp(y) ==
    ExpParts(y, IF y >= 0 THEN (2 * y + LN2) \div (2 * LN2)
                          ELSE -((2 * (-y) + LN2) \div (2 * LN2)))

\* base ** exponent: base a positive rational, exponent in fixed point
\* (millionths).  1.0 ** y is exactly 1.0, as in IEEE pow.
Pow(base, exponent) ==
    IF REq(base, RInt(1)) THEN SCALE ELSE Exp(SMul(exponent, Ln(ToFixed(base))))

\* x * f / SCALE for a rational factor f given in millionths (x in fixed point)
Times(x, millionths) == FMul(x, millionths)

(***************************************************************************)
(* Outcomes: a returned value, or the ValueError raised                    *)
(***************************************************************************)
Ok(v) == [ok |-> TRUE, val |-> v]
Raise(msg) == [ok |-> FALSE, err |-> msg]

\* the messages of the ValueErrors of src/src/egfr.py
ErrScr == "Creatinine must be > 0"               \* line 16
Err2021 == "CKD-EPI 2021: adults only (>=18)"    \* line 52
Err2009 == "CKD-EPI 2009: adults only (>=18)"    \* line 72
ErrMdrd == "MDRD: adults only (>=18)"            \* line 92
ErrCgAge == "Cockcroft-Gault: adults only (>=18)" \* line 104
ErrWeight == "Weight must be > 0"                \* line 106
ErrNoWeight == "Cockcroft-Gault needs a weight"  \* line 168
ErrMethod == "Invalid method"                    \* line 178

(***************************************************************************)
(* scr_to_mgdl                                                             *)
(***************************************************************************)
UMOL_PER_MGDL == <<884, 10>>   \* 88.4

\* as scr_to_mgdl, rejecting only negative values
scr_to_mgdl_zero_accepted(scr_value, unit) ==
    IF RLt(scr_value, RInt(0)) THEN Raise(ErrScr)
    ELSE IF unit = "umol/L" THEN Ok(RDiv(scr_value, UMOL_PER_MGDL))
    ELSE Ok(scr_value)

scr_to_mgdl(scr_value, unit) ==
    IF RLe(scr_value, RInt(0)) THEN Raise(ErrScr)
    ELSE IF unit = "umol/L" THEN Ok(RDiv(scr_value, UMOL_PER_MGDL))
    ELSE Ok(scr_value)

(***************************************************************************)
(* gfr_stage_g1_g5                                                         *)
(***************************************************************************)
\* as gfr_stage_g1_g5, with the G1/G2 and G4/G5 bounds exclusive
gfr_stage_exclusive(gfr) ==
    IF RLt(RInt(90), gfr) THEN <<"G1", "Normal / high (>=90)">>
    ELSE IF RGe(gfr, RInt(60)) THEN <<"G2", "Mildly decreased (60-89)">>
    ELSE IF RGe(gfr, RInt(45)) THEN <<"G3a", "Mild-moderate decrease (45-59)">>
    ELSE IF RGe(gfr, RInt(30)) THEN <<"G3b", "Moderate-severe decrease (30-44)">>
    ELSE IF RLt(RInt(15), gfr) THEN <<"G4", "Severely decreased (15-29)">>
    ELSE <<"G5", "Kidney failure (<15)">>

gfr_stage_g1_g5(gfr) ==
    IF RGe(gfr, RInt(90)) THEN <<"G1", "Normal / high (>=90)">>
    ELSE IF RGe(gfr, RInt(60)) THEN <<"G2", "Mildly decreased (60-89)">>
    ELSE IF RGe(gfr, RInt(45)) THEN <<"G3a", "Mild-moderate decrease (45-59)">>
    ELSE IF RGe(gfr, RInt(30)) THEN <<"G3b", "Moderate-severe decrease (30-44)">>
    ELSE IF RGe(gfr, RInt(15)) THEN <<"G4", "Severely decreased (15-29)">>
    ELSE <<"G5", "Kidney failure (<15)">>

(***************************************************************************)
(* The equations                                                           *)
(***************************************************************************)
\* as egfr_ckd_epi_2021, with the kappa of the two sexes exchanged
egfr_ckd_epi_2021_kappa_swapped(scr_mgdl, age, sex) ==
    IF age < 18 THEN Raise(Err2021)
    ELSE
      LET kappa == IF sex = "female" THEN <<9, 10>> ELSE <<7, 10>>
          alpha == IF sex = "female" THEN -241000 ELSE -302000
          female_factor == IF sex = "female" THEN 1012000 ELSE 1000000
          ratio == RDiv(scr_mgdl, kappa)
          mn == RMin(ratio, RInt(1))
          mx == RMax(ratio, RInt(1))
      IN  Ok(FromFixed(
            Times(FMul(FMul(FMul(142 * SCALE, Pow(mn, alpha)),
                            Pow(mx, -1200000)),
                       Pow(<<9938, 10000>>, age * SCALE)),
                  female_factor)))

egfr_ckd_epi_2021(scr_mgdl, age, sex) ==
    IF age < 18 THEN Raise(Err2021)
    ELSE
      LET kappa == IF sex = "female" THEN <<7, 10>> ELSE <<9, 10>>
          alpha == IF sex = "female" THEN -241000 ELSE -302000
          female_factor == IF sex = "female" THEN 1012000 ELSE 1000000
          ratio == RDiv(scr_mgdl, kappa)
          mn == RMin(ratio, RInt(1))
          mx == RMax(ratio, RInt(1))
      IN  Ok(FromFixed(
            Times(FMul(FMul(FMul(142 * SCALE, Pow(mn, alpha)),
                            Pow(mx, -1200000)),
                       Pow(<<9938, 10000>>, age * SCALE)),
                  female_factor)))

\* as egfr_ckd_epi_2009, without the age check
egfr_ckd_epi_2009_any_age(scr_mgdl, age, sex, black) ==
    LET kappa == IF sex = "female" THEN <<7, 10>> ELSE <<9, 10>>
        alpha == IF sex = "female" THEN -329000 ELSE -411000
        ratio == RDiv(scr_mgdl, kappa)
        mn == RMin(ratio, RInt(1))
        mx == RMax(ratio, RInt(1))
        female_factor == IF sex = "female" THEN 1018000 ELSE 1000000
        black_factor == IF black THEN 1159000 ELSE 1000000
    IN  Ok(FromFixed(
          Times(Times(FMul(FMul(FMul(141 * SCALE, Pow(mn, alpha)),
                                Pow(mx, -1209000)),
                           Pow(<<993, 1000>>, age * SCALE)),
                      female_factor),
                black_factor)))

egfr_ckd_epi_2009(scr_mgdl, age, sex, black) ==
    IF age < 18 THEN Raise(Err2009)
    ELSE
      LET kappa == IF sex = "female" THEN <<7, 10>> ELSE <<9, 10>>
          alpha == IF sex = "female" THEN -329000 ELSE -411000
          ratio == RDiv(scr_mgdl, kappa)
          mn == RMin(ratio, RInt(1))
          mx == RMax(ratio, RInt(1))
          female_factor == IF sex = "female" THEN 1018000 ELSE 1000000
          black_factor == IF black THEN 1159000 ELSE 1000000
      IN  Ok(FromFixed(
            Times(Times(FMul(FMul(FMul(141 * SCALE, Pow(mn, alpha)),
                                  Pow(mx, -1209000)),
                             Pow(<<993, 1000>>, age * SCALE)),
                        female_factor),
                  black_factor)))

\* as egfr_mdrd_idms, with the black coefficient applied whatever the flag
egfr_mdrd_idms_always_black(scr_mgdl, age, sex, black) ==
    IF age < 18 THEN Raise(ErrMdrd)
    ELSE
      LET female_factor == IF sex = "female" THEN 742000 ELSE 1000000
          black_factor == 1212000
      IN  Ok(FromFixed(
            Times(Times(FMul(FMul(175 * SCALE, Pow(scr_mgdl, -1154000)),
                             Pow(RInt(age), -203000)),
                        female_factor),
                  black_factor)))

egfr_mdrd_idms(scr_mgdl, age, sex, black) ==
    IF age < 18 THEN Raise(ErrMdrd)
    ELSE
      LET female_factor == IF sex = "female" THEN 742000 ELSE 1000000
          black_factor == IF black THEN 1212000 ELSE 1000000
      IN  Ok(FromFixed(
            Times(Times(FMul(FMul(175 * SCALE, Pow(scr_mgdl, -1154000)),
                             Pow(RInt(age), -203000)),
                        female_factor),
                  black_factor)))

\* as crcl_cockcroft_gault, rejecting adults of exactly 18 too
crcl_cockcroft_gault_over_18(scr_mgdl, age, sex, weight_kg) ==
    IF age <= 18 THEN Raise(ErrCgAge)
    ELSE IF RLe(weight_kg, RInt(0)) THEN Raise(ErrWeight)
    ELSE
      LET crcl == RDiv(RMul(RInt(140 - age), weight_kg),
                       RMul(RInt(72), scr_mgdl))
      IN  Ok(IF sex = "female" THEN RMul(crcl, <<85, 100>>) ELSE crcl)

\* as crcl_cockcroft_gault, rejecting only negative weights
crcl_cockcroft_gault_zero_weight(scr_mgdl, age, sex, weight_kg) ==
    IF age < 18 THEN Raise(ErrCgAge)
    ELSE IF RLt(weight_kg, RInt(0)) THEN Raise(ErrWeight)
    ELSE
      LET crcl == RDiv(RMul(RInt(140 - age), weight_kg),
                       RMul(RInt(72), scr_mgdl))
      IN  Ok(IF sex = "female" THEN RMul(crcl, <<85, 100>>) ELSE crcl)

\* as crcl_cockcroft_gault, with the 0.85 applied to men instead of women
crcl_cockcroft_gault_male_factor(scr_mgdl, age, sex, weight_kg) ==
    IF age < 18 THEN Raise(ErrCgAge)
    ELSE IF RLe(weight_kg, RInt(0)) THEN Raise(ErrWeight)
    ELSE
      LET crcl == RDiv(RMul(RInt(140 - age), weight_kg),
                       RMul(RInt(72), scr_mgdl))
      IN  Ok(IF sex = "male" THEN RMul(crcl, <<85, 100>>) ELSE crcl)

crcl_cockcroft_gault(scr_mgdl, age, sex, weight_kg) ==
    IF age < 18 THEN Raise(ErrCgAge)
    ELSE IF RLe(weight_kg, RInt(0)) THEN Raise(ErrWeight)
    ELSE
      LET crcl == RDiv(RMul(RInt(140 - age), weight_kg),
                       RMul(RInt(72), scr_mgdl))
      IN  Ok(IF sex = "female" THEN RMul(crcl, <<85, 100>>) ELSE crcl)

(***************************************************************************)
(* compute_kidney_function                                                 *)
(* inp: [method, age, sex, scr_value, scr_unit, black, weight_kg], with    *)
(* weight_kg an Optional rational; t is the clock reading of line 181.     *)
(***************************************************************************)
UNIT_BSA == "mL/min/1.73m2"
UNIT_CRCL == "mL/min"
Notes2021 == "eGFR normalised to 1.73m2 (CKD-EPI 2021, race-free)."
Notes2009 == "eGFR normalised to 1.73m2 (CKD-EPI 2009). Optional black coefficient."
NotesMdrd == "eGFR normalised to 1.73m2 (MDRD IDMS). Optional black coefficient."
NotesCg == "CrCl (Cockcroft-Gault) NOT normalised to 1.73m2; used for drug dosing."

KidneyResult(inp, t, scr_mgdl, val, unit, notes, blk, w) ==
    LET st == gfr_stage_g1_g5(val)
    IN  [timestamp |-> t, method |-> inp.method, age |-> inp.age, sex |-> inp.sex,
         scr_value |-> inp.scr_value, scr_unit |-> inp.scr_unit,
         scr_mgdl |-> scr_mgdl, black |-> blk, weight_kg |-> w,
         value |-> val, value_unit |-> unit,
         stage |-> st[1], stage_text |-> st[2], notes |-> notes]

\* the branch of one method: the equation's outcome f, then the record
Branch(inp, t, scr_mgdl, f, unit, notes, blk, w) ==
    IF f.ok THEN Ok(KidneyResult(inp, t, scr_mgdl, f.val, unit, notes, blk, w))
    ELSE f

compute_kidney_function(inp, t) ==
    LET n == scr_to_mgdl(inp.scr_value, inp.scr_unit)
    IN  IF ~n.ok THEN n
        ELSE IF inp.method = "CKD-EPI 2021" THEN
            Branch(inp, t, n.val, egfr_ckd_epi_2021(n.val, inp.age, inp.sex),
                   UNIT_BSA, Notes2021, None, None)
        ELSE IF inp.method = "CKD-EPI 2009" THEN
            Branch(inp, t, n.val,
                   egfr_ckd_epi_2009(n.val, inp.age, inp.sex, inp.black),
                   UNIT_BSA, Notes2009, Some(inp.black), None)
        ELSE IF inp.method = "MDRD (IDMS)" THEN
            Branch(inp, t, n.val,
                   egfr_mdrd_idms(n.val, inp.age, inp.sex, inp.black),
                   UNIT_BSA, NotesMdrd, Some(inp.black), None)
        ELSE IF inp.method = "Cockcroft-Gault" THEN
            IF inp.weight_kg = None THEN Raise(ErrNoWeight)
            ELSE Branch(inp, t, n.val,
                        crcl_cockcroft_gault(n.val, inp.age, inp.sex,
                                             inp.weight_kg[1]),
                        UNIT_CRCL, NotesCg, None, inp.weight_kg)
        ELSE Raise(ErrMethod)

(***************************************************************************)
(* Callers of the core.  src/src/egfr.py is a library, single-threaded and *)
(* synchronous: a call starts when none is in progress, runs to its        *)
(* outcome (recorded in call), and Return hands the outcome to the caller. *)
(***************************************************************************)
MaxClock == 1        \* clock readings 0..MaxClock
MaxScrTenths == 30   \* creatinine values -MaxScrTenths/10 .. MaxScrTenths/10
MaxGfr == 100        \* filtration values up to MaxGfr + 0.001
BelowZero == 5       \* ... and down to -BelowZero - 0.001
MinorYears == 1      \* ages 18 - MinorYears .. 18, and the adult ages below

Sexes == {"male", "female"}
ScrUnits == {"umol/L", "mg/dL"}
METHODS == {"CKD-EPI 2021", "CKD-EPI 2009", "MDRD (IDMS)", "Cockcroft-Gault"}
OtherMethod == "Other"

ScrValues == {Rat(k, 10) : k \in (0 - MaxScrTenths)..MaxScrTenths}
GfrValues == {Rat(1000 * k + d, 1000) : k \in (0 - BelowZero)..MaxGfr, d \in {-1, 0, 1}}
Ages == ((18 - MinorYears)..18) \cup {40, 50, 60}
\* creatinine as entered: <<value, unit>>
ScrEntered == {<<RInt(0), "mg/dL">>, <<RInt(0), "umol/L">>, <<RInt(-1), "umol/L">>,
               <<RInt(1), "mg/dL">>, <<Rat(12, 10), "mg/dL">>, <<RInt(90), "umol/L">>}
ScrMgdl == {RInt(1), Rat(12, 10), Rat(900, 884)}
Weights == {None, Some(RInt(0)), Some(RInt(-5)), Some(RInt(60))}

ComputeInputs ==
    [method : METHODS \cup {OtherMethod}, age : Ages, sex : Sexes,
     scr : ScrEntered, black : BOOLEAN, weight_kg : Weights]

Input(method, age, sex, scr_value, scr_unit, black, weight_kg) ==
    [method |-> method, age |-> age, sex |-> sex, scr_value |-> scr_value,
     scr_unit |-> scr_unit, black |-> black, weight_kg |-> weight_kg]

NoCall == [op |-> "none", args |-> <<>>, out |-> <<>>]

AppUnchanged == UNCHANGED <<kidney_result, history_exists, history_lines, clicked, shown>>

CallNormalize ==
    \E c \in ScrValues, u \in ScrUnits :
        /\ call = NoCall
        /\ call' = [op |-> "scr_to_mgdl", args |-> <<c, u>>, out |-> scr_to_mgdl(c, u)]
        /\ UNCHANGED now /\ AppUnchanged

CallClassify ==
    \E v \in GfrValues :
        /\ call = NoCall
        /\ call' = [op |-> "gfr_stage_g1_g5", args |-> v, out |-> gfr_stage_g1_g5(v)]
        /\ UNCHANGED now /\ AppUnchanged

FormulaArgs(scr, age, sex, black, w) ==
    [scr_mgdl |-> scr, age |-> age, sex |-> sex, black |-> black, weight_kg |-> w]

Call2021 ==
    \E scr \in ScrMgdl, age \in Ages, sex \in Sexes :
        /\ call = NoCall
        /\ call' = [op |-> "egfr_ckd_epi_2021",
                    args |-> FormulaArgs(scr, age, sex, FALSE, None),
                    out |-> egfr_ckd_epi_2021(scr, age, sex)]
        /\ UNCHANGED now /\ AppUnchanged

Call2009 ==
    \E scr \in ScrMgdl, age \in Ages, sex \in Sexes, black \in BOOLEAN :
        /\ call = NoCall
        /\ call' = [op |-> "egfr_ckd_epi_2009",
                    args |-> FormulaArgs(scr, age, sex, black, None),
                    out |-> egfr_ckd_epi_2009(scr, age, sex, black)]
        /\ UNCHANGED now /\ AppUnchanged

CallMdrd ==
    \E scr \in ScrMgdl, age \in Ages, sex \in Sexes, black \in BOOLEAN :
        /\ call = NoCall
        /\ call' = [op |-> "egfr_mdrd_idms",
                    args |-> FormulaArgs(scr, age, sex, black, None),
                    out |-> egfr_mdrd_idms(scr, age, sex, black)]
        /\ UNCHANGED now /\ AppUnchanged

CallCockcroftGault ==
    \E scr \in ScrMgdl, age \in Ages, sex \in Sexes, w \in Weights \ {None} :
        /\ call = NoCall
        /\ call' = [op |-> "crcl_cockcroft_gault",
                    args |-> FormulaArgs(scr, age, sex, FALSE, w),
                    out |-> crcl_cockcroft_gault(scr, age, sex, w[1])]
        /\ UNCHANGED now /\ AppUnchanged

\* the clock never runs backwards; the call reads it once
CallCompute ==
    \E i \in ComputeInputs, t \in now..MaxClock :
        LET inp == Input(i.method, i.age, i.sex, i.scr[1], i.scr[2], i.black, i.weight_kg)
        IN  /\ call = NoCall
            /\ now' = t
            /\ call' = [op |-> "compute_kidney_function", args |-> inp,
                        out |-> compute_kidney_function(inp, t)]
            /\ AppUnchanged

Return ==
    /\ call # NoCall
    /\ call' = NoCall
    /\ UNCHANGED now /\ AppUnchanged

InitApp ==
    /\ kidney_result = None
    /\ history_exists = FALSE
    /\ history_lines = <<>>
    /\ clicked = "none"
    /\ shown = None

InitCore == call = NoCall /\ now = 0 /\ InitApp

NextNormalize == CallNormalize \/ Return
SpecNormalize == InitCore /\ [][NextNormalize]_vars

NextClassify == CallClassify \/ Return
SpecClassify == InitCore /\ [][NextClassify]_vars

NextCore == Call2021 \/ Call2009 \/ CallMdrd \/ CallCockcroftGault \/ CallCompute \/ Return
SpecCore == InitCore /\ [][NextCore]_vars

(***************************************************************************)
(* src/app.py: the history file and the result handling of the Calc tab    *)
(***************************************************************************)
MaxRows == 2   \* rows the history file may hold before Save is no longer tried

\* floor and remainder of n * 10^digits / d, n >= 0, d > 0
RECURSIVE LongRem(_, _, _)
LongRem(n, d, digits) ==
    IF digits = 0 THEN n % d ELSE LongRem((n % d) * 10, d, digits - 1)

\* f"{x:.<places>f}" for x >= 0, as the integer x * 10^places rounded to
\* nearest.  On an exact decimal tie the digit printed depends on the binary
\* value of the float, so both neighbours are possible.
FormatFixed(x, places) ==
    LET q == LongDiv(x[1], x[2], places)
        r == LongRem(x[1], x[2], places)
    IN  IF 2 * r < x[2] THEN {q}
        ELSE IF 2 * r > x[2] THEN {q + 1}
        ELSE {q, q + 1}

FIELDNAMES == <<"timestamp", "method", "age", "sex", "scr_value", "scr_unit",
                "scr_mgdl", "black", "weight_kg", "value", "value_unit",
                "stage", "stage_text", "notes">>

\* the dicts that lines 102-117 can build from a result
Rows(res) ==
    [timestamp : {res.timestamp}, method : {res.method}, age : {res.age},
     sex : {res.sex}, scr_value : {res.scr_value}, scr_unit : {res.scr_unit},
     scr_mgdl : FormatFixed(res.scr_mgdl, 3),
     black : {IF res.black = None THEN "" ELSE IF res.black[1] THEN "True" ELSE "False"},
     weight_kg : IF res.weight_kg = None THEN {None}
                 ELSE {Some(w) : w \in FormatFixed(res.weight_kg[1], 0)},
     value : FormatFixed(res.value, 1), value_unit : {res.value_unit},
     stage : {res.stage}, stage_text : {res.stage_text}, notes : {res.notes}]

HeaderLine == [kind |-> "header", fields |-> FIELDNAMES]
RowLine(row) == [kind |-> "row", fields |-> row]

\* as save_history_row, writing the header before every row
save_history_row_always_header(exists, lines, row) ==
    lines \o <<HeaderLine, RowLine(row)>>

\* save_history_row: what the file holds after the append
save_history_row(exists, lines, row) ==
    IF ~exists THEN lines \o <<HeaderLine, RowLine(row)>>
    ELSE Append(lines, RowLine(row))

RowCount(lines) == Cardinality({i \in DOMAIN lines : lines[i].kind = "row"})

\* the widgets of lines 39-68: each value lies in its widget's range, the
\* toggle exists only for CKD-EPI 2009 / MDRD, the weight slider only for
\* Cockcroft-Gault
WidgetAges == {40}
WidgetScr == {<<RInt(90), "umol/L">>}
WidgetWeights == {60}
WidgetInputs ==
    {Input(m, a, sx, c[1], c[2], b, w) :
        m \in METHODS, a \in WidgetAges, sx \in {"male"}, c \in WidgetScr,
        b \in BOOLEAN, w \in {None} \cup {Some(RInt(k)) : k \in WidgetWeights}}
WidgetState(inp) ==
    /\ inp.black => inp.method \in {"CKD-EPI 2009", "MDRD (IDMS)"}
    /\ (inp.weight_kg # None) <=> inp.method = "Cockcroft-Gault"
FromWidgets == {inp \in WidgetInputs : WidgetState(inp)}

\* arguments the widgets cannot produce, for the result handling taken alone
OutOfRange ==
    {Input("CKD-EPI 2021", 17, "male", RInt(90), "umol/L", FALSE, None),
     Input("MDRD (IDMS)", 40, "female", RInt(0), "mg/dL", TRUE, None),
     Input("Cockcroft-Gault", 40, "male", RInt(1), "mg/dL", FALSE, None),
     Input("Cockcroft-Gault", 40, "male", RInt(1), "mg/dL", FALSE, Some(RInt(0)))}

\* the call of lines 89-97, tabulated once over the inputs and clock readings
\* drawn below (compute_kidney_function is a function of these alone)
Computed ==
    [inp \in FromWidgets \cup OutOfRange, t \in 0..MaxClock |->
        compute_kidney_function(inp, t)]

\* as Click, with the last result dropped when the computation fails
ClickDropsResult(btn, inp, t) ==
    LET res == Computed[inp, t]
    IN  /\ now' = t
        /\ clicked' = btn
        /\ IF res.ok
           THEN /\ kidney_result' = Some(res.val)
                /\ IF btn = "save"
                   THEN /\ \E row \in Rows(res.val) :
                             history_lines' =
                                 save_history_row(history_exists, history_lines, row)
                        /\ history_exists' = TRUE
                        /\ shown' = Some("saved")
                   ELSE /\ UNCHANGED <<history_exists, history_lines>>
                        /\ shown' = None
           ELSE /\ shown' = Some(res.err)
                /\ kidney_result' = None
                /\ UNCHANGED <<history_exists, history_lines>>
        /\ UNCHANGED call

\* lines 87-122 for calc_btn or save_btn, with the inputs inp at clock reading t
Click(btn, inp, t) ==
    LET res == Computed[inp, t]
    IN  /\ now' = t
        /\ clicked' = btn
        /\ IF res.ok
           THEN /\ kidney_result' = Some(res.val)
                /\ IF btn = "save"
                   THEN /\ \E row \in Rows(res.val) :
                             history_lines' =
                                 save_history_row(history_exists, history_lines, row)
                        /\ history_exists' = TRUE
                        /\ shown' = Some("saved")
                   ELSE /\ UNCHANGED <<history_exists, history_lines>>
                        /\ shown' = None
           ELSE /\ shown' = Some(res.err)
                /\ UNCHANGED <<kidney_result, history_exists, history_lines>>
        /\ UNCHANGED call

ClickCalc(inputs) ==
    \E inp \in inputs, t \in now..MaxClock : Click("calc", inp, t)

ClickSave(inputs) ==
    /\ RowCount(history_lines) < MaxRows
    /\ \E inp \in inputs, t \in now..MaxClock : Click("save", inp, t)

\* lines 84-85: clear_btn
ClickClear ==
    /\ clicked' = "clear"
    /\ kidney_result' = None
    /\ shown' = None
    /\ UNCHANGED <<call, now, history_exists, history_lines>>

\* a rerun started by a widget change: no button is set, lines 84-122 are
\* skipped and the messages of the previous rerun are gone
Rerun ==
    /\ clicked # "none"
    /\ clicked' = "none"
    /\ shown' = None
    /\ UNCHANGED <<call, now, kidney_result, history_exists, history_lines>>

\* the file of an earlier session: its header and the row of a saved result
EarlierRow ==
    CHOOSE row \in Rows(Computed[
        Input("CKD-EPI 2021", 40, "male", RInt(90), "umol/L", FALSE, None), 0].val) : TRUE

Init ==
    /\ call = NoCall
    /\ now = 0
    /\ kidney_result = None
    /\ clicked = "none"
    /\ shown = None
    /\ \/ history_exists = FALSE /\ history_lines = <<>>
       \/ history_exists = TRUE /\ history_lines = <<HeaderLine, RowLine(EarlierRow)>>

CalcFromWidgets == ClickCalc(FromWidgets)
SaveFromWidgets == ClickSave(FromWidgets)
Next == CalcFromWidgets \/ SaveFromWidgets \/ ClickClear \/ Rerun
Spec == Init /\ [][Next]_vars

CalcAnyInput == ClickCalc(FromWidgets \cup OutOfRange)
SaveAnyInput == ClickSave(FromWidgets \cup OutOfRange)
NextHandler == CalcAnyInput \/ SaveAnyInput \/ ClickClear \/ Rerun
SpecHandler == Init /\ [][NextHandler]_vars

(***************************************************************************)
(* Properties                                                              *)
(***************************************************************************)
\* the buckets, best first (src/app.py line 134)
stage_order == <<"G1", "G2", "G3a", "G3b", "G4", "G5">>
Rank(stage) == CHOOSE i \in DOMAIN stage_order : stage_order[i] = stage

IsCall(op) == call.op = op
Positive(r) == RLt(RInt(0), r)

\* the specification's normalize (4.1) and formulas (4.3), for comparison
NormalizedMgdl(c, unit) == IF unit = "umol/L" THEN RDiv(c, Rat(884, 10)) ELSE c

FormulaA(creatinine, age, sex) ==
    LET ratio == RDiv(creatinine, IF sex = "female" THEN Rat(7, 10) ELSE Rat(9, 10))
        alpha == IF sex = "female" THEN -241000 ELSE -302000
        femaleFactor == IF sex = "female" THEN 1012000 ELSE SCALE
    IN  FromFixed(FMul(FMul(FMul(FMul(142 * SCALE, Pow(RMin(ratio, RInt(1)), alpha)),
                                 Pow(RMax(ratio, RInt(1)), -1200000)),
                            Pow(Rat(9938, 10000), age * SCALE)),
                       femaleFactor))

FormulaB(creatinine, age, sex, raceFlag) ==
    LET ratio == RDiv(creatinine, IF sex = "female" THEN Rat(7, 10) ELSE Rat(9, 10))
        alpha == IF sex = "female" THEN -329000 ELSE -411000
        femaleFactor == IF sex = "female" THEN 1018000 ELSE SCALE
        raceFactor == IF raceFlag THEN 1159000 ELSE SCALE
    IN  FromFixed(FMul(FMul(FMul(FMul(FMul(141 * SCALE, Pow(RMin(ratio, RInt(1)), alpha)),
                                      Pow(RMax(ratio, RInt(1)), -1209000)),
                                 Pow(Rat(993, 1000), age * SCALE)),
                            femaleFactor),
                       raceFactor))

FormulaC(creatinine, age, sex, raceFlag) ==
    LET femaleFactor == IF sex = "female" THEN 742000 ELSE SCALE
        raceFactor == IF raceFlag THEN 1212000 ELSE SCALE
    IN  FromFixed(FMul(FMul(FMul(FMul(175 * SCALE, Pow(creatinine, -1154000)),
                                 Pow(RInt(age), -203000)),
                            femaleFactor),
                       raceFactor))

FormulaD(creatinine, age, sex, weight) ==
    LET r == RDiv(RMul(RInt(140 - age), weight), RMul(RInt(72), creatinine))
    IN  IF sex = "female" THEN RMul(r, Rat(85, 100)) ELSE r

\* the boundary cases of classify
Boundaries ==
    {<<RInt(90), "G1">>, <<Rat(89999, 1000), "G2">>, <<RInt(60), "G2">>,
     <<Rat(59999, 1000), "G3a">>, <<RInt(45), "G3a">>, <<RInt(30), "G3b">>,
     <<RInt(15), "G4">>, <<Rat(14999, 1000), "G5">>}

\* C1: classify is total (one of the six buckets, no error), monotonic (a
\* smaller value never gets a better bucket than a larger one) and has the
\* stated boundaries 90, 89.999, 60, 59.999, 45, 30, 15, 14.999.
C1_ClassifyTotalMonotonic ==
    IsCall("gfr_stage_g1_g5") =>
        /\ Cardinality({i \in DOMAIN stage_order : stage_order[i] = call.out[1]}) = 1
        /\ \A v2 \in GfrValues :
              RLt(call.args, v2) => Rank(call.out[1]) >= Rank(gfr_stage_g1_g5(v2)[1])
        /\ \A v0 \in GfrValues :
              RLt(v0, call.args) => Rank(gfr_stage_g1_g5(v0)[1]) >= Rank(call.out[1])
        /\ \A b \in Boundaries : call.args = b[1] => call.out[1] = b[2]
        /\ ~Positive(call.args) => call.out[1] = "G5"
C1_Witness ==
    /\ IsCall("gfr_stage_g1_g5")
    /\ call.args = Rat(89999, 1000)
    /\ call.out[1] = "G2"

\* C2: normalize(c, mg/dL) = c and normalize(c, umol/L) = c / 88.4 for
\* every c > 0; for c <= 0 it fails with InvalidInput for both units.
C2_Normalize ==
    IsCall("scr_to_mgdl") =>
        IF Positive(call.args[1])
        THEN /\ call.out.ok
             /\ call.args[2] = "mg/dL" => call.out.val = call.args[1]
             /\ call.args[2] = "umol/L" =>
                    /\ REq(RMul(call.out.val, Rat(884, 10)), call.args[1])
                    /\ call.out.val = NormalizedMgdl(call.args[1], "umol/L")
        ELSE ~call.out.ok /\ call.out.err = ErrScr
C2_Witness ==
    /\ IsCall("scr_to_mgdl")
    /\ call.args = <<RInt(0), "umol/L">>
    /\ ~call.out.ok

\* a call of an equation, or of compute_kidney_function dispatching to one,
\* that is valid but for the age
AgeErrors == {Err2021, Err2009, ErrMdrd, ErrCgAge}
FormulaOps == {"egfr_ckd_epi_2021", "egfr_ckd_epi_2009", "egfr_mdrd_idms",
               "crcl_cockcroft_gault"}
AgeCase ==
    \/ /\ call.op \in FormulaOps
       /\ Positive(call.args.scr_mgdl)
       /\ call.op = "crcl_cockcroft_gault" => Positive(call.args.weight_kg[1])
    \/ /\ IsCall("compute_kidney_function")
       /\ call.args.method \in METHODS
       /\ Positive(call.args.scr_value)
       /\ call.args.method = "Cockcroft-Gault" =>
              call.args.weight_kg # None /\ Positive(call.args.weight_kg[1])

\* C3: with positive creatinine (and, for Cockcroft-Gault, a positive
\* weight) each formula, and compute_kidney_function dispatching to it,
\* fails with InvalidInput for every age < 18 and succeeds for age = 18.
C3_AgeBoundary ==
    AgeCase =>
        /\ call.args.age < 18 => ~call.out.ok /\ call.out.err \in AgeErrors
        /\ call.args.age = 18 => call.out.ok
C3_Witness ==
    /\ IsCall("compute_kidney_function")
    /\ call.args.method = "Cockcroft-Gault"
    /\ AgeCase
    /\ call.args.age = 18
    /\ call.out.ok

\* Cockcroft-Gault through compute_kidney_function, creatinine positive
CgCase ==
    /\ IsCall("compute_kidney_function")
    /\ call.args.method = "Cockcroft-Gault"
    /\ Positive(call.args.scr_value)

\* C4: Cockcroft-Gault through compute_kidney_function with positive
\* creatinine: without a weight it fails with the weight-required error at
\* every age (the check precedes the formula, so also for age < 18); with
\* a weight <= 0 it fails too; no record in either case.
C4_WeightRequired ==
    CgCase =>
        /\ call.args.weight_kg = None =>
              ~call.out.ok /\ call.out.err = ErrNoWeight
        /\ (call.args.weight_kg # None /\ ~Positive(call.args.weight_kg[1])) =>
              ~call.out.ok /\ call.out.err \in {ErrWeight, ErrCgAge}
C4_Witness ==
    /\ CgCase
    /\ call.args.age < 18
    /\ call.args.weight_kg = None
    /\ call.out = Raise(ErrNoWeight)

\* C5 as stated: every input for which compute_kidney_function returns a
\* record has age >= 18, creatinine > 0, weight > 0 whenever a weight is
\* supplied, and a weight supplied if and only if method = Cockcroft-Gault.
C5_InputInvariantAsStated ==
    (IsCall("compute_kidney_function") /\ call.out.ok) =>
        /\ call.args.age >= 18
        /\ Positive(call.args.scr_value)
        /\ call.args.weight_kg # None => Positive(call.args.weight_kg[1])
        /\ (call.args.weight_kg # None) <=> (call.args.method = "Cockcroft-Gault")

\* C5 (amended): every input for which compute_kidney_function returns a
\* record has age >= 18 and creatinine > 0; for Cockcroft-Gault a weight is
\* supplied, is > 0 and is echoed in the record; for the other methods the
\* weight argument is ignored (the outcome is that of the call without a
\* weight) and the record's weight is null, so it is the returned record
\* whose weight is present if and only if method = Cockcroft-Gault.
C5_RecordInvariant ==
    (IsCall("compute_kidney_function") /\ call.out.ok) =>
        /\ call.args.age >= 18
        /\ Positive(call.args.scr_value)
        /\ call.args.method \in METHODS
        /\ IF call.args.method = "Cockcroft-Gault"
           THEN /\ call.args.weight_kg # None
                /\ Positive(call.args.weight_kg[1])
                /\ call.out.val.weight_kg = call.args.weight_kg
           ELSE /\ call.out.val.weight_kg = None
                /\ call.out = compute_kidney_function(
                                  [call.args EXCEPT !.weight_kg = None],
                                  call.out.val.timestamp)
C5_Witness ==
    /\ IsCall("compute_kidney_function")
    /\ call.args.method = "CKD-EPI 2009"
    /\ call.args.weight_kg = Some(RInt(-5))
    /\ call.out.ok
    /\ call.out.val.weight_kg = None

\* end-to-end scenario B
ScenarioB ==
    /\ IsCall("compute_kidney_function")
    /\ call.args = Input("Cockcroft-Gault", 60, "female", RInt(1), "mg/dL",
                         call.args.black, Some(RInt(60)))

\* C6: for Cockcroft-Gault with valid inputs the record's value is
\* ((140 - age) * weight) / (72 * creatinine in mg/dL), times 0.85 exactly
\* when sex is female, its unit label is "mL/min" and its stage is
\* classify(value); age 60, female, 1.0 mg/dL, 60 kg gives 56.67 (two
\* decimals), "mL/min" and G3a.
C6_CockcroftGault ==
    /\ (CgCase /\ call.out.ok) =>
          /\ call.out.val.value =
                FormulaD(NormalizedMgdl(call.args.scr_value, call.args.scr_unit),
                         call.args.age, call.args.sex, call.args.weight_kg[1])
          /\ call.out.val.value_unit = "mL/min"
          /\ call.out.val.stage = gfr_stage_g1_g5(call.out.val.value)[1]
          /\ call.out.val.stage_text = gfr_stage_g1_g5(call.out.val.value)[2]
    /\ ScenarioB =>
          /\ call.out.ok
          /\ FormatFixed(call.out.val.value, 2) = {5667}
          /\ call.out.val.value_unit = "mL/min"
          /\ call.out.val.stage = "G3a"
C6_Witness == ScenarioB /\ call.out.ok /\ call.out.val.stage = "G3a"

\* end-to-end scenario A, and what holds of it apart from the rounded
\* normalized creatinine
ScenarioA ==
    /\ IsCall("compute_kidney_function")
    /\ call.args = Input("CKD-EPI 2021", 40, "male", RInt(90), "umol/L",
                         call.args.black, call.args.weight_kg)
ScenarioARest ==
    /\ call.out.ok
    /\ call.out.val.scr_mgdl = RDiv(RInt(90), Rat(884, 10))
    /\ call.out.val.value = FormulaA(call.out.val.scr_mgdl, 40, "male")
    /\ RLt(RInt(95), call.out.val.value) /\ RLt(call.out.val.value, RInt(96))
    /\ call.out.val.stage \in {"G1", "G2"}
    /\ call.out.val.stage = gfr_stage_g1_g5(call.out.val.value)[1]
    /\ call.out.val.value_unit = "mL/min/1.73m2"

\* C7 as stated: CKD-EPI-2021, age 40, male, 90 umol/L gives a record whose
\* normalized creatinine is 1.017 mg/dL (to the three decimals given),
\* whose value is formula (a) of that creatinine, whose stage is G1 or G2
\* and whose unit label is "mL/min/1.73m2".
C7_ScenarioAAsStated ==
    ScenarioA => ScenarioARest /\ FormatFixed(call.out.val.scr_mgdl, 3) = {1017}

\* C7 (amended): the same, with the normalized creatinine 90 / 88.4 =
\* 1.018 mg/dL (to three decimals) instead of 1.017.
C7_ScenarioA ==
    ScenarioA => ScenarioARest /\ FormatFixed(call.out.val.scr_mgdl, 3) = {1018}
C7_Witness == ScenarioA /\ call.out.ok /\ call.out.val.stage = "G1"

\* the call in progress with the other race flag, with the flag set and
\* with the flag cleared
Flipped == [call.args EXCEPT !.black = ~call.args.black]
SameButTimestamp(a, b) ==
    IF a.ok /\ b.ok THEN [a.val EXCEPT !.timestamp = 0] = [b.val EXCEPT !.timestamp = 0]
    ELSE a = b
RaceFactor(method) == IF method = "CKD-EPI 2009" THEN 1159000 ELSE 1212000
Flagged(t) == compute_kidney_function([call.args EXCEPT !.black = TRUE], t)
Unflagged(t) == compute_kidney_function([call.args EXCEPT !.black = FALSE], t)

\* C8: the race flag is used only by CKD-EPI-2009 and MDRD-IDMS.  For
\* CKD-EPI-2021 and Cockcroft-Gault the call with the other raceFlag has the
\* same outcome (the same error, or records equal in every field but the
\* timestamp); for CKD-EPI-2009 and MDRD-IDMS the value is the formula's
\* with race factor 1.159 resp. 1.212 when raceFlag is true and 1 when it
\* is false, so the flagged value is the unflagged one times the factor.
C8_RaceFlag ==
    IsCall("compute_kidney_function") =>
        /\ call.args.method \in {"CKD-EPI 2021", "Cockcroft-Gault", OtherMethod} =>
              \A t \in 0..MaxClock :
                  SameButTimestamp(call.out, compute_kidney_function(Flipped, t))
        /\ (call.args.method \in {"CKD-EPI 2009", "MDRD (IDMS)"} /\ call.out.ok) =>
              /\ call.out.val.black = Some(call.args.black)
              /\ call.out.val.value =
                    IF call.args.method = "CKD-EPI 2009"
                    THEN FormulaB(call.out.val.scr_mgdl, call.args.age,
                                  call.args.sex, call.args.black)
                    ELSE FormulaC(call.out.val.scr_mgdl, call.args.age,
                                  call.args.sex, call.args.black)
              /\ ToFixed(Flagged(now).val.value) =
                    FMul(ToFixed(Unflagged(now).val.value), RaceFactor(call.args.method))
              /\ \/ call.args.black /\ call.out = Flagged(now)
                 \/ ~call.args.black /\ call.out = Unflagged(now)
        /\ (call.args.method \in {"CKD-EPI 2009", "MDRD (IDMS)"} /\ ~call.out.ok) =>
              call.out = compute_kidney_function(Flipped, now)
C8_Witness ==
    /\ IsCall("compute_kidney_function")
    /\ call.args = Input("MDRD (IDMS)", 50, "male", Rat(12, 10), "mg/dL", TRUE,
                         call.args.weight_kg)
    /\ call.out.ok
    /\ call.out.val.black = Some(TRUE)

\* the rerun reported a ValueError (st.error), i.e. the click's call failed
ErrorShown == shown # None /\ shown[1] # "saved"
C9_FailedClickStep ==
    (clicked' \in {"calc", "save"} /\ ErrorShown') =>
        /\ kidney_result' = kidney_result
        /\ history_lines' = history_lines
        /\ history_exists' = history_exists

\* C9: when the compute_kidney_function call of a Calc or Save click fails,
\* the session-held last result keeps the value it had before the click
\* (the previous successful result, or none) and nothing is appended to
\* the history file.
C9_FailureLeavesState == [][C9_FailedClickStep]_vars
C9_Witness ==
    /\ clicked = "save"
    /\ ErrorShown
    /\ kidney_result # None
    /\ history_exists
    /\ RowCount(history_lines) = 1

\* what one rerun may do to the history file, and the file's shape
IsPrefix(a, b) == Len(a) <= Len(b) /\ SubSeq(b, 1, Len(a)) = a
HeaderCount(lines) == Cardinality({i \in DOMAIN lines : lines[i].kind = "header"})
C10_Step ==
    /\ IsPrefix(history_lines, history_lines')
    /\ history_exists => history_exists'
    /\ (clicked' \in {"calc", "clear", "none"} \/ ErrorShown') =>
          history_lines' = history_lines /\ history_exists' = history_exists
    /\ (clicked' = "save" /\ ~ErrorShown') =>
          /\ shown' = Some("saved")
          /\ kidney_result' # None
          /\ history_exists'
          /\ RowCount(history_lines') = RowCount(history_lines) + 1
          /\ HeaderCount(history_lines') =
                HeaderCount(history_lines) + (IF history_exists THEN 0 ELSE 1)
          /\ Len(history_lines') = Len(history_lines) + (IF history_exists THEN 1 ELSE 2)
          /\ history_lines'[Len(history_lines')].kind = "row"
          /\ history_lines'[Len(history_lines')].fields \in Rows(kidney_result'[1])
C10_HeaderOnce ==
    /\ history_exists <=> history_lines # <<>>
    /\ history_exists =>
          HeaderCount(history_lines) = 1 /\ history_lines[1] = HeaderLine

\* C10: the history file is append-only with one row per saved result: a
\* Save click whose computation succeeds appends exactly one row, built
\* from the record that is then the session's last result; Calc and Clear
\* clicks append nothing; lines already written are never changed or
\* removed; the header is written once, when the file is created.
C10_AppendOnly == []C10_HeaderOnce /\ [][C10_Step]_vars
C10_Witness ==
    /\ clicked = "save"
    /\ shown = Some("saved")
    /\ Len(history_lines) = 3
    /\ history_lines[1] = HeaderLine
    /\ history_lines[3].fields \in Rows(kidney_result[1])
    /\ history_lines[2].fields.method # history_lines[3].fields.method

====
